---- MODULE Spec2Model ----
(***************************************************************************)
(* A model of the ingestion and retrieval pipeline of the RCM chatbot:     *)
(*   DocumentParser   (src/src/chatbot/document_parser.py)                 *)
(*   PineconeHandler  (src/src/chatbot/pinecone_handler.py)                *)
(*   DocumentProcessor(src/src/chatbot/document_processor.py)              *)
(*   RAGChatbot       (src/src/chatbot/rag_chatbot.py)                     *)
(*                                                                         *)
(* A Python str is a sequence of one-character strings, so that split(),   *)
(* join(), strip() and slicing are computed as Python computes them.  A    *)
(* call that raises returns [raised |-> TRUE, error |-> e]; a call that    *)
(* returns v returns [raised |-> FALSE, value |-> v].                      *)
(***************************************************************************)
EXTENDS Integers, Sequences, FiniteSets, TLC

VARIABLES
    constructed,    \* DocumentProcessor.__init__ has run
    chunk_size,     \* DocumentParser.chunk_size
    chunk_overlap,  \* DocumentParser.chunk_overlap
    fs,             \* the file system: path -> file
    index,          \* the vector index: id -> stored metadata
    call,           \* the last call made on the pipeline and its arguments
    outcome,        \* what that call returned or raised
    embedCalls,     \* the texts sent to the embedding service by that call, in order
    storeCalls,     \* the batches sent to index.upsert by that call, in order
    max_context_chunks, \* RAGChatbot.max_context_chunks
    queryCalls,     \* the requests sent to index.query by that call, in order
    completionCalls \* the requests sent to the completion service by that call

vars == <<constructed, chunk_size, chunk_overlap, fs, index, call, outcome,
          embedCalls, storeCalls, max_context_chunks, queryCalls, completionCalls>>

---------------------------------------------------------------------------
(* Bounds of the model *)

MaxChunkSize == 3
MaxTextLen == 5

---------------------------------------------------------------------------
(* Python values *)

Ok(v) == [raised |-> FALSE, value |-> v]
Raise(e) == [raised |-> TRUE, error |-> e]
Pending == [raised |-> FALSE, pending |-> TRUE]

Min(a, b) == IF a < b THEN a ELSE b

\* the characters str.split() and str.strip() treat as whitespace
Whitespace == {" ", "\n", "\t"}

RECURSIVE SeqsUpTo(_, _)
SeqsUpTo(S, n) ==
    IF n = 0 THEN {<<>>}
    ELSE LET shorter == SeqsUpTo(S, n - 1)
         IN  shorter \cup {Append(s, c) : s \in {t \in shorter : Len(t) = n - 1}, c \in S}

\* words[i:j] for 0 <= i <= j
Slice(s, i, j) == SubSeq(s, i + 1, Min(j, Len(s)))

\* str.split(): the maximal runs of non-whitespace characters, in order
RECURSIVE SplitLoop(_, _, _)
SplitLoop(text, k, cur) ==
    IF k > Len(text)
    THEN IF cur = <<>> THEN <<>> ELSE <<cur>>
    ELSE IF text[k] \in Whitespace
         THEN (IF cur = <<>> THEN <<>> ELSE <<cur>>) \o SplitLoop(text, k + 1, <<>>)
         ELSE SplitLoop(text, k + 1, Append(cur, text[k]))

Split(text) == SplitLoop(text, 1, <<>>)

\* ' '.join(words)
RECURSIVE Join(_)
Join(words) ==
    IF words = <<>> THEN <<>>
    ELSE IF Len(words) = 1 THEN words[1]
    ELSE words[1] \o <<" ">> \o Join(Tail(words))

\* str.strip()
RECURSIVE LStrip(_)
LStrip(s) == IF s /= <<>> /\ s[1] \in Whitespace THEN LStrip(Tail(s)) ELSE s

RECURSIVE RStrip(_)
RStrip(s) ==
    IF s /= <<>> /\ s[Len(s)] \in Whitespace THEN RStrip(SubSeq(s, 1, Len(s) - 1)) ELSE s

Strip(s) == RStrip(LStrip(s))

---------------------------------------------------------------------------
(* DocumentParser *)

\* the body of the loop `for i in range(0, len(words), step)` with step > 0
RECURSIVE ChunkLoop(_, _, _)
ChunkLoop(words, i, step) ==
    IF i >= Len(words) THEN <<>>
    ELSE <<Join(Slice(words, i, i + chunk_size))>> \o ChunkLoop(words, i + step, step)

ChunkTextNoOverlap(text) ==
    Ok(ChunkLoop(Split(text), 0, chunk_size))

ChunkTextStepOffByOne(text) ==
    LET step == chunk_size - chunk_overlap + 1
    IN  Ok(ChunkLoop(Split(text), 0, step))

ChunkTextAbsStep(text) ==
    LET step == chunk_size - chunk_overlap
    IN  IF step = 0 THEN Raise("ValueError")
        ELSE Ok(ChunkLoop(Split(text), 0, IF step < 0 THEN -step ELSE step))

\* _chunk_text: range() raises on a zero step and is empty on a negative one
ChunkText(text) ==
    LET words == Split(text)
        step == chunk_size - chunk_overlap
    IN  IF step = 0 THEN Raise("ValueError")
        ELSE IF step < 0 THEN Ok(<<>>)
        ELSE Ok(ChunkLoop(words, 0, step))

\* A path is its directory, its name and its suffix; str(path) is PathStr.
PathStr(path) == path.dir \o "/" \o path.name \o path.suffix

\* A file is what its bytes hold: plain text, a docx document (its
\* paragraphs), a pdf document (the text of its pages), or bytes that no
\* extractor reads.  A path outside DOMAIN fs does not exist.
TextFile(t) == [kind |-> "text", text |-> t]
DocxFile(ps) == [kind |-> "docx", paragraphs |-> ps]
PdfFile(ps) == [kind |-> "pdf", pages |-> ps]
Garbage == [kind |-> "garbage"]

Exists(path) == path \in DOMAIN fs

\* str(n) for n >= 0
RECURSIVE Decimal(_)
Decimal(n) ==
    IF n < 10 THEN <<ToString(n)>> ELSE Decimal(n \div 10) \o <<ToString(n % 10)>>

\* f"\n--- Page {page_num + 1} ---\n"
PageMarker(page_num) ==
    <<"\n", "-", "-", "-", " ", "P", "a", "g", "e", " ">> \o Decimal(page_num + 1)
        \o <<" ", "-", "-", "-", "\n">>

\* the text accumulated over pages[0 .. n-1]
RECURSIVE PdfText(_, _)
PdfText(pages, n) ==
    IF n = 0 THEN <<>>
    ELSE PdfText(pages, n - 1) \o PageMarker(n - 1) \o pages[n]

\* the text accumulated over paragraphs[0 .. n-1]
RECURSIVE DocxText(_, _)
DocxText(paragraphs, n) ==
    IF n = 0 THEN <<>>
    ELSE DocxText(paragraphs, n - 1) \o paragraphs[n] \o <<"\n">>

EnumerateFromOne(text_chunks) ==
    [k \in 1..Len(text_chunks) |-> <<k, text_chunks[k]>>]

\* enumerate(text_chunks): the pairs (i, chunk), i from 0
Enumerate(text_chunks) ==
    [k \in 1..Len(text_chunks) |-> <<k - 1, text_chunks[k]>>]

\* the chunk dictionaries appended by `for i, chunk in enumerate(text_chunks)`
\* `rest` holds the metadata keys other than chunk_id
ChunkDicts(text_chunks, rest) ==
    LET pairs == Enumerate(text_chunks)
    IN  [k \in 1..Len(pairs) |->
            [content |-> pairs[k][2],
             metadata |-> ("chunk_id" :> pairs[k][1]) @@ rest]]

\* _parse_pdf: PdfReader raises on bytes that are not a pdf document
ParsePdf(path) ==
    IF fs[path].kind /= "pdf" THEN Raise("PdfReadError")
    ELSE LET pages == fs[path].pages
             text_chunks == ChunkText(PdfText(pages, Len(pages)))
             meta == [source |-> PathStr(path),
                         file_type |-> "pdf", total_pages |-> Len(pages)]
         IN  IF text_chunks.raised THEN text_chunks
             ELSE Ok(ChunkDicts(text_chunks.value, meta))

\* _parse_docx: docx.Document raises on bytes that are not a docx package
ParseDocx(path) ==
    IF fs[path].kind /= "docx" THEN Raise("PackageNotFoundError")
    ELSE LET paragraphs == fs[path].paragraphs
             text_chunks == ChunkText(DocxText(paragraphs, Len(paragraphs)))
             meta == [source |-> PathStr(path),
                         file_type |-> "docx", total_paragraphs |-> Len(paragraphs)]
         IN  IF text_chunks.raised THEN text_chunks
             ELSE Ok(ChunkDicts(text_chunks.value, meta))

\* _parse_txt: file.read() raises on bytes that are not utf-8 text
ParseTxt(path) ==
    IF fs[path].kind /= "text" THEN Raise("UnicodeDecodeError")
    ELSE LET text_chunks == ChunkText(fs[path].text)
             meta == [source |-> PathStr(path),
                         file_type |-> "txt"]
         IN  IF text_chunks.raised THEN text_chunks
             ELSE Ok(ChunkDicts(text_chunks.value, meta))

\* the suffixes parse_document dispatches inside this repository; any other
\* suffix is handed to the `unstructured` library
Suffixes == {".pdf", ".docx", ".doc", ".txt"}

\* parse_document: the error of the extractor is logged and raised again
ParseDocument(path) ==
    IF ~Exists(path) THEN Raise("FileNotFoundError")
    ELSE CASE path.suffix = ".pdf" -> ParsePdf(path)
           [] path.suffix \in {".docx", ".doc"} -> ParseDocx(path)
           [] path.suffix = ".txt" -> ParseTxt(path)

DefaultExtensions == {".pdf", ".docx", ".doc", ".txt", ".md", ".html", ".csv"}

\* the files directory_path.rglob('*') yields
FilesUnder(directory_path) == {path \in DOMAIN fs : path.dir = directory_path}

\* the orders in which rglob may yield them
Listings(directory_path) ==
    {order \in [1..Cardinality(FilesUnder(directory_path)) -> FilesUnder(directory_path)] :
        \A i, j \in DOMAIN order : i /= j => order[i] /= order[j]}

\* the loop of parse_directory over order[k ..]
RECURSIVE ParseDirectoryLoopAbort(_, _, _, _)
ParseDirectoryLoopAbort(order, k, file_extensions, all_chunks) ==
    IF k > Len(order) THEN all_chunks
    ELSE IF order[k].suffix \in file_extensions
         THEN LET chunks == ParseDocument(order[k])
              IN  IF chunks.raised THEN all_chunks
                  ELSE ParseDirectoryLoopAbort(order, k + 1, file_extensions,
                                               all_chunks \o chunks.value)
         ELSE ParseDirectoryLoopAbort(order, k + 1, file_extensions, all_chunks)

RECURSIVE ParseDirectoryLoop(_, _, _, _)
ParseDirectoryLoop(order, k, file_extensions, all_chunks) ==
    IF k > Len(order) THEN all_chunks
    ELSE IF order[k].suffix \in file_extensions
         THEN LET chunks == ParseDocument(order[k])
              IN  IF chunks.raised
                  THEN ParseDirectoryLoop(order, k + 1, file_extensions, all_chunks)
                  ELSE ParseDirectoryLoop(order, k + 1, file_extensions,
                                          all_chunks \o chunks.value)
         ELSE ParseDirectoryLoop(order, k + 1, file_extensions, all_chunks)

\* parse_directory, rglob yielding the files in `order`
ParseDirectory(directory_path, file_extensions, order) ==
    Ok(ParseDirectoryLoop(order, 1, file_extensions, <<>>))

---------------------------------------------------------------------------
(* PineconeHandler *)

BatchSizeDefault == 100
ContentCap == 1000

\* the Python str as one TLA+ string
RECURSIVE Str(_)
Str(s) == IF s = <<>> THEN "" ELSE s[1] \o Str(Tail(s))

\* hashlib.md5(content.encode()).hexdigest()[:8], tabulated for the contents
\* that occur: one to four of the words "a" and "b" joined by single spaces
Md5Prefix ==
    "a" :> "0cc175b9" @@ "b" :> "92eb5ffe" @@ "a a" :> "1bbda9b9"
    @@ "a b" :> "0cc9cd4d" @@ "b a" :> "22936088" @@ "b b" :> "8f26e54c"
    @@ "a a a" :> "7bbb5a22" @@ "a a b" :> "b929c0f5" @@ "a b a" :> "fd0b0f6f"
    @@ "a b b" :> "8d2ed0bd" @@ "b a a" :> "3ee46709" @@ "b a b" :> "c9131e58"
    @@ "b b a" :> "0c9a0f23" @@ "b b b" :> "8cefe804" @@ "a a a a" :> "df542bdb"
    @@ "a a a b" :> "1f39fbbd" @@ "a a b a" :> "96077e8e" @@ "a a b b" :> "7de65ca9"
    @@ "a b a a" :> "9477fb1e" @@ "a b a b" :> "ca0ec9a8" @@ "a b b a" :> "0e8e6eb3"
    @@ "a b b b" :> "9d025064" @@ "b a a a" :> "2ef21d2f" @@ "b a a b" :> "f1778fa1"
    @@ "b a b a" :> "ce8f7784" @@ "b a b b" :> "d03b1016" @@ "b b a a" :> "4309343a"
    @@ "b b a b" :> "9bf6cc02" @@ "b b b a" :> "67bc7690" @@ "b b b b" :> "2ae94579"

ContentHash(content) == Md5Prefix[Str(content)]

\* metadata.get(key, default)
Get(metadata, key, default) ==
    IF key \in DOMAIN metadata THEN metadata[key] ELSE default

GenerateIdNoHash(content, metadata) ==
    Get(metadata, "source", "unknown") \o "_"
        \o ToString(Get(metadata, "chunk_id", 0))

GenerateIdFromIndexSize(content, metadata) ==
    Get(metadata, "source", "unknown") \o "_"
        \o ToString(Get(metadata, "chunk_id", 0)) \o "_"
        \o ToString(Cardinality(DOMAIN index))

\* _generate_id
GenerateId(content, metadata) ==
    Get(metadata, "source", "unknown") \o "_"
        \o ToString(Get(metadata, "chunk_id", 0)) \o "_" \o ContentHash(content)

\* the vector packaged for one document; the embedding values returned by the
\* service are opaque and are left out
Vector(doc) ==
    [id |-> GenerateId(doc.content, doc.metadata),
     metadata |-> ("content" :> Slice(doc.content, 0, ContentCap)) @@ doc.metadata]

\* the first loop of upsert_documents over documents[k ..]: embedOk holds the
\* positions whose embedding call returns; acc.calls logs each call made
RECURSIVE EmbedLoop(_, _, _, _)
EmbedLoop(documents, k, embedOk, acc) ==
    IF k > Len(documents) THEN acc
    ELSE LET doc == documents[k]
             made == [text |-> doc.content, ok |-> k \in embedOk]
         IN  IF Strip(doc.content) = <<>>
             THEN EmbedLoop(documents, k + 1, embedOk, acc)
             ELSE IF k \in embedOk
             THEN EmbedLoop(documents, k + 1, embedOk,
                      [vectors |-> Append(acc.vectors, Vector(doc)),
                       calls |-> Append(acc.calls, made)])
             ELSE EmbedLoop(documents, k + 1, embedOk,
                      [vectors |-> acc.vectors, calls |-> Append(acc.calls, made)])

\* index.upsert(vectors=batch) when the store accepts it: each vector is
\* written under its id, over any vector already there
RECURSIVE StoreUpsert(_, _)
StoreUpsert(idx, batch) ==
    IF batch = <<>> THEN idx
    ELSE StoreUpsert((batch[1].id :> batch[1].metadata) @@ idx, Tail(batch))

\* the second loop of upsert_documents from offset i, batch number n: storeOk
\* holds the numbers of the batches the store accepts; a batch it refuses
\* raises and stores nothing
RECURSIVE BatchLoopStopOnFailure(_, _, _, _, _, _)
BatchLoopStopOnFailure(vectors, i, n, batch_size, storeOk, acc) ==
    IF i >= Len(vectors) THEN acc
    ELSE LET batch == Slice(vectors, i, i + batch_size)
         IN  IF n \in storeOk
             THEN BatchLoopStopOnFailure(vectors, i + batch_size, n + 1, batch_size, storeOk,
                      [idx |-> StoreUpsert(acc.idx, batch),
                       upserted_count |-> acc.upserted_count + Len(batch),
                       failed_count |-> acc.failed_count,
                       calls |-> Append(acc.calls, [batch |-> batch, ok |-> TRUE])])
             ELSE [idx |-> acc.idx,
                   upserted_count |-> acc.upserted_count,
                   failed_count |-> acc.failed_count + Len(batch),
                   calls |-> Append(acc.calls, [batch |-> batch, ok |-> FALSE])]

RECURSIVE BatchLoop(_, _, _, _, _, _)
BatchLoop(vectors, i, n, batch_size, storeOk, acc) ==
    IF i >= Len(vectors) THEN acc
    ELSE LET batch == Slice(vectors, i, i + batch_size)
         IN  IF n \in storeOk
             THEN BatchLoop(vectors, i + batch_size, n + 1, batch_size, storeOk,
                      [idx |-> StoreUpsert(acc.idx, batch),
                       upserted_count |-> acc.upserted_count + Len(batch),
                       failed_count |-> acc.failed_count,
                       calls |-> Append(acc.calls, [batch |-> batch, ok |-> TRUE])])
             ELSE BatchLoop(vectors, i + batch_size, n + 1, batch_size, storeOk,
                      [idx |-> acc.idx,
                       upserted_count |-> acc.upserted_count,
                       failed_count |-> acc.failed_count + Len(batch),
                       calls |-> Append(acc.calls, [batch |-> batch, ok |-> FALSE])])

UpsertDocumentsCountsEmbedFailures(documents, batch_size, embedOk, storeOk) ==
    LET embedded == EmbedLoop(documents, 1, embedOk, [vectors |-> <<>>, calls |-> <<>>])
        vectors == embedded.vectors
        start == [idx |-> index, upserted_count |-> 0,
                  failed_count |-> Len(embedded.calls) - Len(vectors),
                  calls |-> <<>>]
        stored == IF batch_size > 0
                  THEN BatchLoop(vectors, 0, 1, batch_size, storeOk, start)
                  ELSE start
    IN  IF batch_size = 0
        THEN [result |-> Raise("ValueError"), idx |-> index,
              embedCalls |-> embedded.calls, storeCalls |-> <<>>]
        ELSE [result |-> Ok([upserted |-> stored.upserted_count,
                             failed |-> stored.failed_count,
                             total |-> Len(vectors)]),
              idx |-> stored.idx,
              embedCalls |-> embedded.calls, storeCalls |-> stored.calls]

\* upsert_documents: what it returns or raises (result), the index it leaves
\* (idx) and the calls it made on the two services
UpsertDocuments(documents, batch_size, embedOk, storeOk) ==
    LET embedded == EmbedLoop(documents, 1, embedOk, [vectors |-> <<>>, calls |-> <<>>])
        vectors == embedded.vectors
        start == [idx |-> index, upserted_count |-> 0, failed_count |-> 0,
                  calls |-> <<>>]
        stored == IF batch_size > 0
                  THEN BatchLoop(vectors, 0, 1, batch_size, storeOk, start)
                  ELSE start
    IN  IF batch_size = 0
        THEN [result |-> Raise("ValueError"), idx |-> index,
              embedCalls |-> embedded.calls, storeCalls |-> <<>>]
        ELSE [result |-> Ok([upserted |-> stored.upserted_count,
                             failed |-> stored.failed_count,
                             total |-> Len(vectors)]),
              idx |-> stored.idx,
              embedCalls |-> embedded.calls, storeCalls |-> stored.calls]

DeleteBySourceClearsIndex(source_path, deleteOk) ==
    IF deleteOk
    THEN [result |-> Ok(TRUE), idx |-> [id \in {} |-> 0]]
    ELSE [result |-> Ok(FALSE), idx |-> index]

\* delete_by_source: index.delete either removes every vector whose
\* metadata source is source_path, or raises and removes nothing
DeleteBySource(source_path, deleteOk) ==
    IF deleteOk
    THEN [result |-> Ok(TRUE),
          idx |-> [id \in {i \in DOMAIN index :
                              \/ "source" \notin DOMAIN index[i]
                              \/ index[i].source /= source_path} |->
                      index[id]]]
    ELSE [result |-> Ok(FALSE), idx |-> index]

---------------------------------------------------------------------------
(* DocumentProcessor *)

\* DocumentParser.__init__ stores what it is given
DocumentParserInit(size, overlap) ==
    Ok([chunk_size |-> size, chunk_overlap |-> overlap])

ProcessSingleFilePropagates(file_path, embedOk, storeOk) ==
    LET chunks == ParseDocument(file_path)
        up == UpsertDocuments(chunks.value, BatchSizeDefault, embedOk, storeOk)
    IN  IF chunks.raised
        THEN [result |-> chunks, idx |-> index, embedCalls |-> <<>>, storeCalls |-> <<>>]
        ELSE [result |-> Ok([file_path |-> PathStr(file_path),
                             chunks_parsed |-> Len(chunks.value),
                             vectors_upserted |-> up.result.value.upserted,
                             vectors_failed |-> up.result.value.failed,
                             success |-> TRUE]),
              idx |-> up.idx, embedCalls |-> up.embedCalls,
              storeCalls |-> up.storeCalls]

\* process_single_file
ProcessSingleFile(file_path, embedOk, storeOk) ==
    LET chunks == ParseDocument(file_path)
        up == UpsertDocuments(chunks.value, BatchSizeDefault, embedOk, storeOk)
        failure(e) == Ok([file_path |-> PathStr(file_path), error |-> e,
                          success |-> FALSE])
    IN  IF chunks.raised
        THEN [result |-> failure(chunks.error), idx |-> index,
              embedCalls |-> <<>>, storeCalls |-> <<>>]
        ELSE IF up.result.raised
        THEN [result |-> failure(up.result.error), idx |-> up.idx,
              embedCalls |-> up.embedCalls, storeCalls |-> up.storeCalls]
        ELSE [result |-> Ok([file_path |-> PathStr(file_path),
                             chunks_parsed |-> Len(chunks.value),
                             vectors_upserted |-> up.result.value.upserted,
                             vectors_failed |-> up.result.value.failed,
                             success |-> TRUE]),
              idx |-> up.idx, embedCalls |-> up.embedCalls,
              storeCalls |-> up.storeCalls]

\* process_directory, rglob yielding the files in `order`
ProcessDirectory(directory_path, file_extensions, order, embedOk, storeOk) ==
    LET chunks == ParseDirectory(directory_path, file_extensions, order)
        up == UpsertDocuments(chunks.value, BatchSizeDefault, embedOk, storeOk)
        failure(e) == Ok([directory_path |-> directory_path, error |-> e,
                          success |-> FALSE])
    IN  IF chunks.raised
        THEN [result |-> failure(chunks.error), idx |-> index,
              embedCalls |-> <<>>, storeCalls |-> <<>>]
        ELSE IF up.result.raised
        THEN [result |-> failure(up.result.error), idx |-> up.idx,
              embedCalls |-> up.embedCalls, storeCalls |-> up.storeCalls]
        ELSE [result |-> Ok([directory_path |-> directory_path,
                             total_chunks_parsed |-> Len(chunks.value),
                             vectors_upserted |-> up.result.value.upserted,
                             vectors_failed |-> up.result.value.failed,
                             success |-> TRUE]),
              idx |-> up.idx, embedCalls |-> up.embedCalls,
              storeCalls |-> up.storeCalls]

\* delete_document
DeleteDocument(file_path, deleteOk) == DeleteBySource(PathStr(file_path), deleteOk)

---------------------------------------------------------------------------
(* Calling _chunk_text on a text, for a parser built with any configuration *)

Chars == {"a", "b", " "}
Texts == SeqsUpTo(Chars, MaxTextLen)
ChunkSizes == 1..MaxChunkSize
ChunkOverlaps == 0..(MaxChunkSize + 1)

NoFiles == [p \in {} |-> 0]
EmptyIndex == [i \in {} |-> 0]

InitChunk ==
    /\ constructed = TRUE
    /\ chunk_size \in ChunkSizes
    /\ chunk_overlap \in ChunkOverlaps
    /\ fs = NoFiles
    /\ index = EmptyIndex
    /\ call \in {[op |-> "_chunk_text", text |-> t] : t \in Texts}
    /\ outcome = Pending
    /\ embedCalls = <<>>
    /\ storeCalls = <<>>
    /\ max_context_chunks = 0
    /\ queryCalls = <<>>
    /\ completionCalls = <<>>

ChunkTextCall ==
    /\ call.op = "_chunk_text"
    /\ outcome = Pending
    /\ outcome' = ChunkText(call.text)
    /\ UNCHANGED <<constructed, chunk_size, chunk_overlap, fs, index, call,
                   embedCalls, storeCalls, max_context_chunks, queryCalls,
                   completionCalls>>

NextChunk == ChunkTextCall

SpecChunk == InitChunk /\ [][NextChunk]_vars

ValidConfig == 0 <= chunk_overlap /\ chunk_overlap < chunk_size

ChunkTextReturned == call.op = "_chunk_text" /\ outcome /= Pending

CeilDiv(n, d) == (n + d - 1) \div d

\* C1: with 0 <= chunk_overlap < chunk_size, a text of n >= 1 words is cut
\* into exactly ceil(n / (chunk_size - chunk_overlap)) chunks, each of at
\* most chunk_size words.
C1_ChunkCount ==
    (ChunkTextReturned /\ ValidConfig /\ Len(Split(call.text)) >= 1) =>
        /\ ~outcome.raised
        /\ Len(outcome.value) =
               CeilDiv(Len(Split(call.text)), chunk_size - chunk_overlap)
        /\ \A k \in 1..Len(outcome.value) :
               Len(Split(outcome.value[k])) <= chunk_size

C1_Witness ==
    /\ ChunkTextReturned /\ ValidConfig
    /\ chunk_overlap = 1 /\ chunk_size = 2
    /\ Len(Split(call.text)) = 3
    /\ Len(outcome.value) = 3

\* C2: with 0 <= chunk_overlap < chunk_size, chunk k+1 starts exactly
\* chunk_size - chunk_overlap words after chunk k (the first at word 0), and
\* whenever chunk k has chunk_size words and chunk k+1 at least chunk_overlap
\* words, the last chunk_overlap words of chunk k are the first chunk_overlap
\* words of chunk k+1.
C2_Overlap ==
    (ChunkTextReturned /\ ValidConfig) =>
        /\ ~outcome.raised
        /\ LET words == Split(call.text)
               step == chunk_size - chunk_overlap
               chunkWords(k) == Split(outcome.value[k])
           IN  /\ \A k \in 1..Len(outcome.value) :
                      chunkWords(k) =
                          Slice(words, (k - 1) * step, (k - 1) * step + chunk_size)
               /\ \A k \in 1..(Len(outcome.value) - 1) :
                      (/\ Len(chunkWords(k)) = chunk_size
                       /\ Len(chunkWords(k + 1)) >= chunk_overlap) =>
                          SubSeq(chunkWords(k), chunk_size - chunk_overlap + 1,
                                 chunk_size)
                              = SubSeq(chunkWords(k + 1), 1, chunk_overlap)

C2_Witness ==
    /\ ChunkTextReturned /\ ValidConfig
    /\ chunk_size = 2 /\ chunk_overlap = 1
    /\ Len(Split(call.text)) = 3
    /\ Split(call.text)[1] /= Split(call.text)[2]
    /\ Len(outcome.value) = 3
    /\ Split(outcome.value[1])[2] = Split(outcome.value[2])[1]

---------------------------------------------------------------------------
(* Calling parse_document on one file *)

MaxParts == 2

PartTexts == {<<>>, <<" ">>, <<"a">>, <<"a", " ", "b">>, <<"\n", "b">>}
Parts == SeqsUpTo(PartTexts, MaxParts)

Files ==
    {TextFile(t) : t \in Texts} \cup {DocxFile(ps) : ps \in Parts}
        \cup {PdfFile(ps) : ps \in Parts} \cup {Garbage}

ParsePaths == {[dir |-> "docs", name |-> "a", suffix |-> s] : s \in Suffixes}

InitParse ==
    /\ constructed = TRUE
    /\ chunk_size \in ChunkSizes
    /\ chunk_overlap \in ChunkOverlaps
    /\ \E path \in ParsePaths :
          /\ fs \in {NoFiles} \cup {path :> f : f \in Files}
          /\ call = [op |-> "parse_document", path |-> path]
    /\ index = EmptyIndex
    /\ outcome = Pending
    /\ embedCalls = <<>>
    /\ storeCalls = <<>>
    /\ max_context_chunks = 0
    /\ queryCalls = <<>>
    /\ completionCalls = <<>>

ParseDocumentCall ==
    /\ call.op = "parse_document"
    /\ outcome = Pending
    /\ outcome' = ParseDocument(call.path)
    /\ UNCHANGED <<constructed, chunk_size, chunk_overlap, fs, index, call,
                   embedCalls, storeCalls, max_context_chunks, queryCalls,
                   completionCalls>>

NextParse == ParseDocumentCall

SpecParse == InitParse /\ [][NextParse]_vars

ParseDocumentReturned ==
    call.op = "parse_document" /\ outcome /= Pending /\ ~outcome.raised

\* the text parse_document extracts from a file before it is chunked
ExtractedText(f) ==
    CASE f.kind = "text" -> f.text
      [] f.kind = "docx" -> DocxText(f.paragraphs, Len(f.paragraphs))
      [] f.kind = "pdf" -> PdfText(f.pages, Len(f.pages))

---------------------------------------------------------------------------
(* Calling upsert_documents on a list of chunk dictionaries *)

MaxDocs == 3
MaxBatchSize == 2

SampleMetadata(i) == [source |-> "docs/a.txt", chunk_id |-> i, file_type |-> "txt"]

SampleDocs ==
    {[content |-> <<"a">>, metadata |-> SampleMetadata(0)],
     [content |-> <<"b">>, metadata |-> SampleMetadata(1)],
     [content |-> <<" ", "\n">>, metadata |-> SampleMetadata(2)]}

BatchSizes == (-1)..MaxBatchSize

\* the positions of the documents upsert_documents sends to the embedding service
Embedded(documents) ==
    {k \in 1..Len(documents) : Strip(documents[k].content) /= <<>>}

\* the numbers of the batches upsert_documents submits
BatchNumbers(documents, batch_size, embedOk) ==
    IF batch_size <= 0 THEN {}
    ELSE 1..((Cardinality(Embedded(documents) \cap embedOk) + batch_size - 1)
                \div batch_size)

InitUpsert ==
    /\ constructed = TRUE
    /\ chunk_size \in {1}
    /\ chunk_overlap \in {0}
    /\ fs = NoFiles
    /\ index = EmptyIndex
    /\ call \in {[op |-> "upsert_documents", documents |-> d, batch_size |-> b] :
                    d \in SeqsUpTo(SampleDocs, MaxDocs), b \in BatchSizes}
    /\ outcome = Pending
    /\ embedCalls = <<>>
    /\ storeCalls = <<>>
    /\ max_context_chunks = 0
    /\ queryCalls = <<>>
    /\ completionCalls = <<>>

\* one call; the services answer each request as they choose
UpsertDocumentsCall ==
    /\ call.op = "upsert_documents"
    /\ \E embedOk \in SUBSET Embedded(call.documents) :
       \E storeOk \in SUBSET BatchNumbers(call.documents, call.batch_size, embedOk) :
          LET r == UpsertDocuments(call.documents, call.batch_size, embedOk, storeOk)
          IN  /\ outcome' = r.result
              /\ index' = r.idx
              /\ embedCalls' = r.embedCalls
              /\ storeCalls' = r.storeCalls
    /\ queryCalls' = <<>>
    /\ completionCalls' = <<>>
    /\ UNCHANGED <<constructed, chunk_size, chunk_overlap, fs, call, max_context_chunks>>

NextUpsert == UpsertDocumentsCall

SpecUpsert == InitUpsert /\ [][NextUpsert]_vars

UpsertReturned ==
    call.op = "upsert_documents" /\ outcome /= Pending /\ ~outcome.raised

\* the vectors of the logged batches whose acceptance is `ok`, in order
RECURSIVE Submitted(_, _)
Submitted(calls, ok) ==
    IF calls = <<>> THEN <<>>
    ELSE (IF calls[1].ok = ok THEN calls[1].batch ELSE <<>>)
             \o Submitted(Tail(calls), ok)

RECURSIVE AllSubmitted(_)
AllSubmitted(calls) ==
    IF calls = <<>> THEN <<>> ELSE calls[1].batch \o AllSubmitted(Tail(calls))

EmbedRaised == SelectSeq(embedCalls, LAMBDA c : ~c.ok)
EmbedReturned == SelectSeq(embedCalls, LAMBDA c : c.ok)

\* C7: every chunk whose embedding call raises is counted in 'failed', is in
\* no batch sent to the store, and the embedding service is called exactly
\* once per non-empty chunk.
C7_EmbeddingFailuresCounted ==
    (UpsertReturned /\ call.batch_size >= 1) =>
        /\ outcome.value.failed =
               Len(EmbedRaised) + Len(Submitted(storeCalls, FALSE))
        /\ [k \in 1..Len(AllSubmitted(storeCalls)) |->
               AllSubmitted(storeCalls)[k].metadata.content]
             = [k \in 1..Len(EmbedReturned) |-> EmbedReturned[k].text]
        /\ [k \in 1..Len(embedCalls) |-> embedCalls[k].text]
             = [k \in 1..Len(SelectSeq(call.documents,
                                       LAMBDA d : Strip(d.content) /= <<>>)) |->
                   SelectSeq(call.documents,
                             LAMBDA d : Strip(d.content) /= <<>>)[k].content]

\* C8: for batch_size >= 1 the batches are the consecutive slices of at most
\* batch_size of the packaged vectors, all submitted in order whatever the
\* store answers; a refused batch adds its size to 'failed' and stores none
\* of its vectors; 'upserted' is the total size of the accepted batches and
\* upserted + failed = total.
C8_BatchIsolation ==
    [][(call'.op = "upsert_documents" /\ call'.batch_size >= 1) =>
          LET all == AllSubmitted(storeCalls')
              n == Len(storeCalls')
          IN  /\ ~outcome'.raised
              /\ [k \in 1..Len(all) |-> all[k].metadata.content]
                   = [k \in 1..Len(EmbedReturned') |-> EmbedReturned'[k].text]
              /\ \A k \in 1..n :
                    /\ Len(storeCalls'[k].batch) >= 1
                    /\ Len(storeCalls'[k].batch) <= call'.batch_size
                    /\ k < n => Len(storeCalls'[k].batch) = call'.batch_size
              /\ outcome'.value.total = Len(all)
              /\ outcome'.value.failed = Len(Submitted(storeCalls', FALSE))
              /\ outcome'.value.upserted = Len(Submitted(storeCalls', TRUE))
              /\ outcome'.value.upserted + outcome'.value.failed
                   = outcome'.value.total
              /\ index' = StoreUpsert(index, Submitted(storeCalls', TRUE))
      ]_vars

C8_Witness ==
    /\ UpsertReturned
    /\ call.batch_size = 1
    /\ Len(storeCalls) = 3
    /\ ~storeCalls[1].ok /\ storeCalls[2].ok /\ ~storeCalls[3].ok
    /\ storeCalls[1].batch[1].id /= storeCalls[2].batch[1].id
    /\ outcome.value = [upserted |-> 1, failed |-> 2, total |-> 3]
    /\ DOMAIN index = {storeCalls[2].batch[1].id}

---------------------------------------------------------------------------
(* Calls on a DocumentProcessor *)

MaxDocChunkSize == 2

DocDir == "docs"
DocPaths == {[dir |-> DocDir, name |-> n, suffix |-> ".txt"] : n \in {"a", "b"}}

\* DocumentProcessor.__init__(chunk_size=size, chunk_overlap=overlap)
Construct ==
    /\ ~constructed
    /\ \E size \in 1..MaxDocChunkSize, overlap \in 0..(MaxDocChunkSize + 1) :
          LET parser == DocumentParserInit(size, overlap)
          IN  /\ call' = [op |-> "__init__", chunk_size |-> size,
                          chunk_overlap |-> overlap]
              /\ outcome' = parser
              /\ constructed' = ~parser.raised
              /\ chunk_size' = IF parser.raised THEN chunk_size
                               ELSE parser.value.chunk_size
              /\ chunk_overlap' = IF parser.raised THEN chunk_overlap
                                  ELSE parser.value.chunk_overlap
    /\ embedCalls' = <<>>
    /\ storeCalls' = <<>>
    /\ queryCalls' = <<>>
    /\ completionCalls' = <<>>
    /\ UNCHANGED <<fs, index, max_context_chunks>>

\* the positions of a chunk list
Positions(chunks) == IF chunks.raised THEN {} ELSE 1..Len(chunks.value)

\* process_single_file(path); each embedding request and the batch may fail
ProcessSingleFileCall ==
    /\ constructed
    /\ \E path \in DocPaths :
       \E embedOk \in SUBSET Positions(ParseDocument(path)), storeOk \in SUBSET {1} :
          LET r == ProcessSingleFile(path, embedOk, storeOk)
          IN  /\ call' = [op |-> "process_single_file", path |-> path]
              /\ outcome' = r.result
              /\ index' = r.idx
              /\ embedCalls' = r.embedCalls
              /\ storeCalls' = r.storeCalls
    /\ queryCalls' = <<>>
    /\ completionCalls' = <<>>
    /\ UNCHANGED <<constructed, chunk_size, chunk_overlap, fs, max_context_chunks>>

\* process_directory(DocDir); rglob yields the files in any order, and each
\* embedding request and the batch may fail
ProcessDirectoryCall ==
    /\ constructed
    /\ \E order \in Listings(DocDir) :
       \E embedOk \in SUBSET Positions(ParseDirectory(DocDir, DefaultExtensions, order)),
          storeOk \in SUBSET {1} :
          LET r == ProcessDirectory(DocDir, DefaultExtensions, order, embedOk, storeOk)
          IN  /\ call' = [op |-> "process_directory", directory_path |-> DocDir]
              /\ outcome' = r.result
              /\ index' = r.idx
              /\ embedCalls' = r.embedCalls
              /\ storeCalls' = r.storeCalls
    /\ queryCalls' = <<>>
    /\ completionCalls' = <<>>
    /\ UNCHANGED <<constructed, chunk_size, chunk_overlap, fs, max_context_chunks>>

\* parse_directory(DocDir)
ParseDirectoryCall ==
    /\ constructed
    /\ \E order \in Listings(DocDir) :
          /\ call' = [op |-> "parse_directory", directory_path |-> DocDir]
          /\ outcome' = ParseDirectory(DocDir, DefaultExtensions, order)
    /\ embedCalls' = <<>>
    /\ storeCalls' = <<>>
    /\ queryCalls' = <<>>
    /\ completionCalls' = <<>>
    /\ UNCHANGED <<constructed, chunk_size, chunk_overlap, fs, index, max_context_chunks>>

\* delete_document(path); the store may refuse the delete
DeleteDocumentCall ==
    /\ constructed
    /\ \E path \in DocPaths, deleteOk \in BOOLEAN :
          LET r == DeleteDocument(path, deleteOk)
          IN  /\ call' = [op |-> "delete_document", path |-> path]
              /\ outcome' = r.result
              /\ index' = r.idx
    /\ embedCalls' = <<>>
    /\ storeCalls' = <<>>
    /\ queryCalls' = <<>>
    /\ completionCalls' = <<>>
    /\ UNCHANGED <<constructed, chunk_size, chunk_overlap, fs, max_context_chunks>>

---------------------------------------------------------------------------
(* One ingestion call on a processor built with any configuration, over a  *)
(* directory that holds any mix of documents, unreadable files and missing *)
(* files, and an index that may hold vectors of an earlier run             *)

MaxDocWords == 2

IngestFiles ==
    {TextFile(Join(ws)) : ws \in SeqsUpTo({<<"a">>}, MaxDocWords)}
        \cup {TextFile(<<"b">>), Garbage}

\* the directories: each path holds one of the files or does not exist
Directories ==
    UNION {[present -> IngestFiles] : present \in SUBSET DocPaths}

\* what an earlier run left in the index
EarlierVector ==
    [id |-> "docs/a.txt_0_92eb5ffe",
     metadata |-> [content |-> <<"b">>, source |-> "docs/a.txt", chunk_id |-> 0,
                   file_type |-> "txt"]]

InitIngest ==
    /\ constructed = FALSE
    /\ chunk_size = 0
    /\ chunk_overlap = 0
    /\ fs \in Directories
    /\ index \in {EmptyIndex, StoreUpsert(EmptyIndex, <<EarlierVector>>)}
    /\ call = [op |-> "none"]
    /\ outcome = Pending
    /\ embedCalls = <<>>
    /\ storeCalls = <<>>
    /\ max_context_chunks = 0
    /\ queryCalls = <<>>
    /\ completionCalls = <<>>

FirstCall == call.op = "__init__"

NextIngest ==
    \/ Construct
    \/ FirstCall /\ ProcessSingleFileCall
    \/ FirstCall /\ ParseDirectoryCall
    \/ FirstCall /\ ProcessDirectoryCall

SpecIngest == InitIngest /\ [][NextIngest]_vars

\* C4: a configuration with chunk_overlap >= chunk_size is rejected when the
\* processor (and its parser) is constructed: the constructor fails with a
\* configuration error, and no processor holds such a configuration.
C4_InvalidConfigRejected ==
    /\ (call.op = "__init__" /\ call.chunk_overlap >= call.chunk_size) =>
           outcome.raised
    /\ constructed => chunk_overlap < chunk_size

\* the chunks parse_document gives for a file, none when it raises
ParsedChunks(path) ==
    IF ParseDocument(path).raised THEN <<>> ELSE ParseDocument(path).value

RECURSIVE ConcatParsed(_, _)
ConcatParsed(order, k) ==
    IF k > Len(order) THEN <<>>
    ELSE ParsedChunks(order[k]) \o ConcatParsed(order, k + 1)

\* C5: parse_directory does not raise and returns, for some order of the
\* files of the directory, the concatenation of the chunks of the files that
\* parse; process_directory then reports success with total_chunks_parsed
\* the number of chunks of those files.
C5_DirectoryIsolation ==
    /\ call.op = "parse_directory" =>
          /\ ~outcome.raised
          /\ \E order \in Listings(DocDir) : outcome.value = ConcatParsed(order, 1)
    /\ call.op = "process_directory" =>
          /\ ~outcome.raised
          /\ outcome.value.success
          /\ \E order \in Listings(DocDir) :
                outcome.value.total_chunks_parsed = Len(ConcatParsed(order, 1))

C5_Witness ==
    /\ call.op = "process_directory"
    /\ \E bad, good \in FilesUnder(DocDir) :
          /\ ParseDocument(bad).raised
          /\ ~ParseDocument(good).raised
          /\ Len(ParseDocument(good).value) = 2
    /\ outcome.value.success
    /\ outcome.value.total_chunks_parsed = 2
    /\ outcome.value.vectors_upserted = 2

\* C6: process_single_file and process_directory always return a report;
\* when the parser raises the report has success = false, and a report with
\* success = false carries an error message and the call has sent nothing
\* to the index.
C6_ErrorsReported ==
    [][call'.op \in {"process_single_file", "process_directory"} =>
          /\ ~outcome'.raised
          /\ outcome'.value.success \in BOOLEAN
          /\ (call'.op = "process_single_file" /\ ParseDocument(call'.path).raised) =>
                 ~outcome'.value.success
          /\ ~outcome'.value.success =>
                 /\ "error" \in DOMAIN outcome'.value
                 /\ storeCalls' = <<>>
                 /\ index' = index
      ]_vars

C6_Witness ==
    /\ call.op = "process_single_file"
    /\ ~outcome.raised
    /\ ~outcome.value.success
    /\ outcome.value.error = "FileNotFoundError"
    /\ index /= EmptyIndex

\* the words of the file process_single_file was called on
WordsOfFile == Split(fs[call.path].text)

ReadableFile ==
    /\ call.op = "process_single_file"
    /\ call.path \in DOMAIN fs
    /\ fs[call.path].kind = "text"

\* C17: ingesting a readable file always ends with a report, whatever the
\* configuration: with chunk_overlap > chunk_size the text is cut into no
\* chunks and the report has success = true with nothing parsed, embedded
\* or upserted, however many words the file has; with chunk_overlap =
\* chunk_size the parse fails with an error and the report has success =
\* false; with chunk_overlap < chunk_size a file with words gives chunks.
C17_ChunkingTerminates ==
    ReadableFile =>
        /\ outcome /= Pending
        /\ ~outcome.raised
        /\ chunk_overlap > chunk_size =>
              /\ ChunkText(fs[call.path].text) = Ok(<<>>)
              /\ outcome.value.success
              /\ outcome.value.chunks_parsed = 0
              /\ outcome.value.vectors_upserted = 0
              /\ outcome.value.vectors_failed = 0
              /\ embedCalls = <<>>
              /\ storeCalls = <<>>
        /\ chunk_overlap = chunk_size =>
              /\ ChunkText(fs[call.path].text).raised
              /\ ~outcome.value.success
              /\ outcome.value.error = "ValueError"
        /\ (chunk_overlap < chunk_size /\ WordsOfFile /= <<>>) =>
              /\ outcome.value.success
              /\ outcome.value.chunks_parsed >= 1

C17_Witness ==
    /\ ReadableFile
    /\ chunk_overlap > chunk_size
    /\ Len(WordsOfFile) = 2
    /\ outcome.value.success
    /\ outcome.value.chunks_parsed = 0

\* the chunks the last ingestion call parsed
ChunksOfCall ==
    IF call.op = "process_single_file" THEN ParsedChunks(call.path)
    ELSE ConcatParsed(CHOOSE order \in Listings(DocDir) : TRUE, 1)

\* how many of them upsert_documents skips as whitespace-only
SkippedOfCall ==
    Cardinality({k \in 1..Len(ChunksOfCall) : Strip(ChunksOfCall[k].content) = <<>>})

\* C18: in every report with success = true, vectors_upserted +
\* vectors_failed is the number of chunks parsed, less the whitespace-only
\* chunks, less the chunks whose embedding call raised, so it is at most the
\* number of chunks parsed; and vectors_upserted is the number of vectors
\* in the batches the store accepted, 0 when it refused them all.
C18_ReportArithmetic ==
    (/\ call.op \in {"process_single_file", "process_directory"}
     /\ ~outcome.raised
     /\ outcome.value.success) =>
        LET parsed == IF call.op = "process_single_file"
                      THEN outcome.value.chunks_parsed
                      ELSE outcome.value.total_chunks_parsed
            sum == outcome.value.vectors_upserted + outcome.value.vectors_failed
        IN  /\ parsed = Len(ChunksOfCall)
            /\ sum = parsed - SkippedOfCall - Len(EmbedRaised)
            /\ sum <= parsed
            /\ outcome.value.vectors_upserted = Len(Submitted(storeCalls, TRUE))
            /\ outcome.value.vectors_failed = Len(Submitted(storeCalls, FALSE))

C18_Witness ==
    /\ call.op = "process_directory"
    /\ outcome.value.success
    /\ outcome.value.total_chunks_parsed = 3
    /\ Len(EmbedRaised) = 1
    /\ storeCalls /= <<>>
    /\ \A k \in 1..Len(storeCalls) : ~storeCalls[k].ok
    /\ outcome.value.vectors_upserted = 0
    /\ outcome.value.vectors_failed = 2

---------------------------------------------------------------------------
(* The pipeline over time: a processor is built, the owner of the          *)
(* documents writes and revises them, and they are ingested, ingested      *)
(* again and deleted                                                       *)

\* the successive texts of a document: written, its second chunk changed,
\* then cut to one word
Revisions == <<<<"a", " ", "b">>, <<"a", " ", "a">>, <<"a">>>>

\* the revision a path holds, 0 when it does not exist
RevisionAt(path) ==
    IF path \notin DOMAIN fs THEN 0
    ELSE CHOOSE k \in 1..Len(Revisions) : Revisions[k] = fs[path].text

Init ==
    /\ constructed = FALSE
    /\ chunk_size = 0
    /\ chunk_overlap = 0
    /\ fs = NoFiles
    /\ index = EmptyIndex
    /\ call = [op |-> "none"]
    /\ outcome = Pending
    /\ embedCalls = <<>>
    /\ storeCalls = <<>>
    /\ max_context_chunks = 0
    /\ queryCalls = <<>>
    /\ completionCalls = <<>>

\* the owner writes a document or replaces it by a later revision
ReviseFile ==
    /\ \E path \in DocPaths :
       \E k \in (RevisionAt(path) + 1)..Len(Revisions) :
          /\ fs' = (path :> TextFile(Revisions[k])) @@ fs
          /\ call' = [op |-> "write", path |-> path]
    /\ outcome' = Pending
    /\ embedCalls' = <<>>
    /\ storeCalls' = <<>>
    /\ queryCalls' = <<>>
    /\ completionCalls' = <<>>
    /\ UNCHANGED <<constructed, chunk_size, chunk_overlap, index, max_context_chunks>>

Next ==
    \/ Construct
    \/ ReviseFile
    \/ ProcessSingleFileCall
    \/ DeleteDocumentCall

Spec == Init /\ [][Next]_vars

Ids(vectors) == {vectors[k].id : k \in 1..Len(vectors)}

\* process_single_file returned success and no embedding or store call failed
IngestedAllServed ==
    /\ call.op = "process_single_file"
    /\ ~outcome.raised
    /\ outcome.value.success
    /\ \A k \in 1..Len(embedCalls) : embedCalls[k].ok
    /\ \A k \in 1..Len(storeCalls) : storeCalls[k].ok

\* C9: ingesting the same unchanged document again, every embedding and
\* store call succeeding both times, sends the same set of vector ids and
\* leaves the index with the same ids, hence the same number of vectors.
C9_ReingestIdempotent ==
    [][(IngestedAllServed /\ IngestedAllServed' /\ call'.path = call.path) =>
          /\ Ids(AllSubmitted(storeCalls')) = Ids(AllSubmitted(storeCalls))
          /\ DOMAIN index' = DOMAIN index
          /\ Cardinality(DOMAIN index') = Cardinality(DOMAIN index)
      ]_vars

C9_Witness ==
    /\ IngestedAllServed
    /\ outcome.value.chunks_parsed = 2
    /\ outcome.value.vectors_upserted = 2
    /\ Ids(AllSubmitted(storeCalls)) = DOMAIN index
    /\ Cardinality(DOMAIN index) = 2

\* C10: an ingestion leaves every vector already in the index in place and
\* unchanged; a chunk it sends has the id of a stored vector of the same
\* source and chunk_id exactly when their contents are equal (so a changed
\* chunk gets a new id and the old vector stays); and only delete_document
\* removes vectors.
C10_StaleVectorsRemain ==
    [][/\ call'.op = "process_single_file" =>
            LET sent == AllSubmitted(storeCalls')
            IN  /\ \A id \in DOMAIN index :
                      id \in DOMAIN index' /\ index'[id] = index[id]
                /\ \A k \in 1..Len(sent) : \A id \in DOMAIN index :
                      (/\ index[id].source = sent[k].metadata.source
                       /\ index[id].chunk_id = sent[k].metadata.chunk_id) =>
                          ((index[id].content = sent[k].metadata.content)
                              <=> (sent[k].id = id))
       /\ call'.op \notin {"process_single_file", "delete_document"} =>
            index' = index
      ]_vars

C10_Witness ==
    /\ call.op = "process_single_file"
    /\ ~outcome.raised
    /\ outcome.value.success
    /\ outcome.value.chunks_parsed = 1
    /\ \E i, j \in DOMAIN index :
          /\ i /= j
          /\ index[i].source = PathStr(call.path)
          /\ index[j].source = PathStr(call.path)
          /\ index[i].chunk_id = 1
          /\ index[j].chunk_id = 1

---------------------------------------------------------------------------
(* Retrieval: the index's query service, PineconeHandler.search,           *)
(* DocumentProcessor.search_documents and RAGChatbot                       *)
(* (src/src/chatbot/rag_chatbot.py)                                        *)

\* Optional[T]: None, or a value
None == <<>>
Some(v) == <<v>>

\* `if x` for an Optional[str]
Truthy(x) == x /= None /\ x[1] /= ""

\* the scores the store gives, in ten-thousandths
Scores == {8754, 8756}

\* the vectors a metadata filter admits: all of them when there is no
\* filter, else those whose metadata has each key of the filter at its value
Admitted(filter_dict) ==
    {id \in DOMAIN index :
        filter_dict = None \/
            \A key \in DOMAIN filter_dict[1] :
                key \in DOMAIN index[id] /\ index[id][key] = filter_dict[1][key]}

\* the ways to rank at most n of the vectors `ids`, no vector twice
Rankings(ids, n) ==
    {r \in SeqsUpTo(ids, n) : \A i, j \in DOMAIN r : i /= j => r[i] /= r[j]}

\* the ways to score n matches, best first
ScoreLists(n) ==
    {sc \in [1..n -> Scores] : \A i \in 1..(n - 1) : sc[i] >= sc[i + 1]}

\* index.query(vector, top_k, include_metadata=True, filter): the store
\* refuses a top_k below 1 and may fail on any request; when it answers,
\* the matches are at most top_k of the vectors the filter admits, each
\* with its metadata, in descending order of score
QueryResponses(top_k, filter_dict) ==
    {Raise("PineconeException")} \cup
    (IF top_k < 1 THEN {}
     ELSE UNION {
            {Ok([matches |->
                    [k \in 1..Len(r) |->
                        [id |-> r[k], score |-> sc[k], metadata |-> index[r[k]]]]]) :
                sc \in ScoreLists(Len(r))} :
            r \in Rankings(Admitted(filter_dict),
                           Min(top_k, Cardinality(Admitted(filter_dict))))})

SearchLoopDropLast(matches) ==
    [k \in 1..(Len(matches) - 1) |->
        [content |-> Get(matches[k].metadata, "content", <<>>),
         score |-> matches[k].score,
         metadata |-> matches[k].metadata,
         id |-> matches[k].id]]

\* the loop of search over search_results['matches']
SearchLoop(matches) ==
    [k \in 1..Len(matches) |->
        [content |-> Get(matches[k].metadata, "content", <<>>),
         score |-> matches[k].score,
         metadata |-> matches[k].metadata,
         id |-> matches[k].id]]

\* PineconeHandler.search: the query is embedded, the index is queried and
\* the matches are repackaged; an error of either service propagates
Search(query, top_k, filter_dict, embedOk, response) ==
    LET made == [text |-> query, ok |-> embedOk]
        asked == [top_k |-> top_k, filter |-> filter_dict, response |-> response]
    IN  IF ~embedOk
        THEN [result |-> Raise("OpenAIError"), embedCalls |-> <<made>>,
              queryCalls |-> <<>>]
        ELSE IF response.raised
        THEN [result |-> response, embedCalls |-> <<made>>,
              queryCalls |-> <<asked>>]
        ELSE [result |-> Ok(SearchLoop(response.value.matches)),
              embedCalls |-> <<made>>, queryCalls |-> <<asked>>]

FilterDictIgnored(source_filter) == None

\* filter_dict = {'source': source_filter} if source_filter else None
FilterDict(source_filter) ==
    IF Truthy(source_filter) THEN Some([source |-> source_filter[1]]) ELSE None

\* search_documents
SearchDocuments(query, top_k, source_filter, embedOk, response) ==
    Search(query, top_k, FilterDict(source_filter), embedOk, response)

\* search_relevant_docs
SearchRelevantDocs(query, top_k, embedOk, response) ==
    SearchDocuments(query,
                    IF top_k = None THEN max_context_chunks ELSE top_k[1],
                    None, embedOk, response)

\* the characters of the str values the model holds as one string
Characters ==
    "docs/a.txt" :> <<"d", "o", "c", "s", "/", "a", ".", "t", "x", "t">>
    @@ "docs/b.txt" :> <<"d", "o", "c", "s", "/", "b", ".", "t", "x", "t">>
    @@ "Unknown source" :> <<"U", "n", "k", "n", "o", "w", "n", " ", "s", "o", "u", "r", "c", "e">>
    @@ "timeout" :> <<"t", "i", "m", "e", "o", "u", "t">>

\* the three digits of n < 1000
Digits3(n) ==
    <<ToString(n \div 100), ToString((n \div 10) % 10), ToString(n % 10)>>

\* f"{score:.3f}" for a score held in ten-thousandths whose last digit is
\* not 5: rounded to the nearest thousandth
Format3f(score) ==
    LET rounded == (score + 5) \div 10
    IN  Decimal(rounded \div 1000) \o <<".">> \o Digits3(rounded % 1000)

\* sep.join(parts)
RECURSIVE JoinWith(_, _)
JoinWith(sep, parts) ==
    IF parts = <<>> THEN <<>>
    ELSE IF Len(parts) = 1 THEN parts[1]
    ELSE parts[1] \o sep \o JoinWith(sep, Tail(parts))

\* "\n\n---\n\n"
ContextSeparator == <<"\n", "\n", "-", "-", "-", "\n", "\n">>

\* f"Document {i} (Score: {score:.3f}, Source: {source}):\n{content}"
ContextPart(i, result) ==
    <<"D", "o", "c", "u", "m", "e", "n", "t", " ">> \o Decimal(i)
        \o <<" ", "(", "S", "c", "o", "r", "e", ":", " ">>
        \o Format3f(result.score)
        \o <<",", " ", "S", "o", "u", "r", "c", "e", ":", " ">>
        \o Characters[Get(result.metadata, "source", "Unknown source")]
        \o <<")", ":", "\n">> \o result.content

NoRelevantDocuments ==
    <<"N", "o", " ", "r", "e", "l", "e", "v", "a", "n", "t", " ", "d", "o",
    "c", "u", "m", "e", "n", "t", "s", " ", "f", "o", "u", "n", "d", ".">>

BuildContextFromZero(search_results) ==
    IF search_results = <<>> THEN NoRelevantDocuments
    ELSE JoinWith(ContextSeparator,
                  [k \in 1..Len(search_results) |->
                      ContextPart(k - 1, search_results[k])])

\* build_context
BuildContext(search_results) ==
    IF search_results = <<>> THEN NoRelevantDocuments
    ELSE JoinWith(ContextSeparator,
                  [k \in 1..Len(search_results) |->
                      ContextPart(k, search_results[k])])

\* "Sorry, I encountered an error generating a response: "
Apology ==
    <<"S", "o", "r", "r", "y", ",", " ", "I", " ", "e", "n", "c", "o", "u",
    "n", "t", "e", "r", "e", "d", " ", "a", "n", " ", "e", "r", "r", "o",
    "r", " ", "g", "e", "n", "e", "r", "a", "t", "i", "n", "g", " ", "a",
    " ", "r", "e", "s", "p", "o", "n", "s", "e", ":", " ">>

GenerateResponsePropagates(query, context, completion) ==
    LET asked == [query |-> query, context |-> context, response |-> completion]
    IN  [result |-> IF completion.raised THEN Raise("OpenAIError")
                    ELSE Ok(completion.value),
         completionCalls |-> <<asked>>]

\* generate_response: one request to the completion service, carrying the
\* context and the query; its answer is returned, its error is turned into
\* the apology followed by str(e)
GenerateResponse(query, context, completion) ==
    LET asked == [query |-> query, context |-> context, response |-> completion]
    IN  [result |-> IF completion.raised
                    THEN Ok(Apology \o Characters[completion.error])
                    ELSE Ok(completion.value),
         completionCalls |-> <<asked>>]

\* the response of chat when the search finds nothing
NoDocumentsResponse ==
    <<"I", " ", "c", "o", "u", "l", "d", "n", "'", "t", " ", "f", "i", "n",
    "d", " ", "a", "n", "y", " ", "r", "e", "l", "e", "v", "a", "n", "t",
    " ", "d", "o", "c", "u", "m", "e", "n", "t", "s", " ", "t", "o", " ",
    "a", "n", "s", "w", "e", "r", " ", "y", "o", "u", "r", " ", "q", "u",
    "e", "s", "t", "i", "o", "n", ".", " ", "P", "l", "e", "a", "s", "e",
    " ", "t", "r", "y", " ", "r", "e", "p", "h", "r", "a", "s", "i", "n",
    "g", " ", "o", "r", " ", "a", "s", "k", "i", "n", "g", " ", "a", "b",
    "o", "u", "t", " ", "a", " ", "d", "i", "f", "f", "e", "r", "e", "n",
    "t", " ", "t", "o", "p", "i", "c", ".">>

\* the loop of chat over search_results
ChatSources(search_results) ==
    [k \in 1..Len(search_results) |->
        [source |-> Get(search_results[k].metadata, "source", "Unknown"),
         score |-> search_results[k].score,
         chunk_id |-> Get(search_results[k].metadata, "chunk_id", 0)]]

ChatNoShortCircuit(query, embedOk, response, completion) ==
    LET found == SearchRelevantDocs(query, None, embedOk, response)
        context == BuildContext(found.result.value)
        generated == GenerateResponse(query, context, completion)
    IN  IF found.result.raised
        THEN [result |-> found.result, embedCalls |-> found.embedCalls,
              queryCalls |-> found.queryCalls, completionCalls |-> <<>>]
        ELSE [result |-> Ok([query |-> query,
                             response |-> generated.result.value,
                             sources |-> ChatSources(found.result.value),
                             context_used |-> context]),
              embedCalls |-> found.embedCalls, queryCalls |-> found.queryCalls,
              completionCalls |-> generated.completionCalls]

\* chat: an error of the search or of generate_response propagates
Chat(query, embedOk, response, completion) ==
    LET found == SearchRelevantDocs(query, None, embedOk, response)
        context == BuildContext(found.result.value)
        generated == GenerateResponse(query, context, completion)
    IN  IF found.result.raised
        THEN [result |-> found.result, embedCalls |-> found.embedCalls,
              queryCalls |-> found.queryCalls, completionCalls |-> <<>>]
        ELSE IF found.result.value = <<>>
        THEN [result |-> Ok([query |-> query,
                             response |-> NoDocumentsResponse,
                             sources |-> <<>>,
                             context_used |-> <<>>]),
              embedCalls |-> found.embedCalls, queryCalls |-> found.queryCalls,
              completionCalls |-> <<>>]
        ELSE IF generated.result.raised
        THEN [result |-> generated.result, embedCalls |-> found.embedCalls,
              queryCalls |-> found.queryCalls,
              completionCalls |-> generated.completionCalls]
        ELSE [result |-> Ok([query |-> query,
                             response |-> generated.result.value,
                             sources |-> ChatSources(found.result.value),
                             context_used |-> context]),
              embedCalls |-> found.embedCalls, queryCalls |-> found.queryCalls,
              completionCalls |-> generated.completionCalls]

---------------------------------------------------------------------------
(* A RAGChatbot over time: documents are ingested and deleted through its  *)
(* processor, and the index is searched and asked questions.  A search or  *)
(* a chat turn changes nothing but the record of the last call, so each    *)
(* behaviour ends with it.                                                 *)

MaxTopK == 2

ChunkSizeDefault == 1000
ChunkOverlapDefault == 200

\* a vector written to the index by another client: no source, no content,
\* no chunk_id
ForeignVector == [id |-> "x", metadata |-> [origin |-> "import"]]

RetrievalFiles ==
    [dir |-> DocDir, name |-> "a", suffix |-> ".txt"] :> TextFile(<<"a", " ", "b">>)
    @@ [dir |-> DocDir, name |-> "b", suffix |-> ".txt"] :> TextFile(<<"b">>)

Queries == {<<"q">>}

SourceFilters == {None, Some("")} \cup {Some(PathStr(path)) : path \in DocPaths}

\* what the completion service may answer
Completions == {Ok(<<"o", "k">>), Raise("timeout")}

\* the state after RAGChatbot.__init__(max_context_chunks=m)
InitRetrieval ==
    /\ constructed = TRUE
    /\ chunk_size = ChunkSizeDefault
    /\ chunk_overlap = ChunkOverlapDefault
    /\ max_context_chunks \in 0..MaxTopK
    /\ fs = RetrievalFiles
    /\ index \in {EmptyIndex,
                  StoreUpsert(EmptyIndex, <<EarlierVector>>),
                  StoreUpsert(EmptyIndex, <<EarlierVector, ForeignVector>>)}
    /\ call = [op |-> "__init__"]
    /\ outcome = Ok(TRUE)
    /\ embedCalls = <<>>
    /\ storeCalls = <<>>
    /\ queryCalls = <<>>
    /\ completionCalls = <<>>

\* search_documents(query, top_k, source_filter); either service may fail
SearchDocumentsCall ==
    /\ constructed
    /\ \E query \in Queries, top_k \in 0..MaxTopK, source_filter \in SourceFilters :
       \E embedOk \in BOOLEAN :
       \E response \in IF embedOk THEN QueryResponses(top_k, FilterDict(source_filter))
                       ELSE {Raise("PineconeException")} :
          LET r == SearchDocuments(query, top_k, source_filter, embedOk, response)
          IN  /\ call' = [op |-> "search_documents", query |-> query,
                          top_k |-> top_k, source_filter |-> source_filter]
              /\ outcome' = r.result
              /\ embedCalls' = r.embedCalls
              /\ queryCalls' = r.queryCalls
    /\ storeCalls' = <<>>
    /\ completionCalls' = <<>>
    /\ UNCHANGED <<constructed, chunk_size, chunk_overlap, fs, index,
                   max_context_chunks>>

\* chat(query); each of the three services may fail
ChatCall ==
    /\ constructed
    /\ \E query \in Queries, embedOk \in BOOLEAN :
       \E response \in IF embedOk THEN QueryResponses(max_context_chunks, None)
                       ELSE {Raise("PineconeException")} :
       \E completion \in IF embedOk /\ ~response.raised /\ response.value.matches /= <<>>
                         THEN Completions ELSE {Raise("timeout")} :
          LET r == Chat(query, embedOk, response, completion)
          IN  /\ call' = [op |-> "chat", query |-> query]
              /\ outcome' = r.result
              /\ embedCalls' = r.embedCalls
              /\ queryCalls' = r.queryCalls
              /\ completionCalls' = r.completionCalls
    /\ storeCalls' = <<>>
    /\ UNCHANGED <<constructed, chunk_size, chunk_overlap, fs, index,
                   max_context_chunks>>

Answered == call.op \in {"search_documents", "chat"}

NextRetrieval ==
    \/ ~Answered /\ ProcessSingleFileCall
    \/ ~Answered /\ DeleteDocumentCall
    \/ ~Answered /\ SearchDocumentsCall
    \/ ~Answered /\ ChatCall

SpecRetrieval == InitRetrieval /\ [][NextRetrieval]_vars

\* the matches the store returned to the last call
Matches == queryCalls[1].response.value.matches

SearchReturned == call.op = "search_documents" /\ ~outcome.raised

ChatReturned == call.op = "chat" /\ ~outcome.raised

\* the source of a stored vector, None when it has none
SourceOf(metadata) ==
    IF "source" \in DOMAIN metadata THEN Some(metadata.source) ELSE None

\* C11: a delete_document(p) that returns True removes every vector whose
\* metadata source is p, leaves every other vector in place and unchanged
\* and adds none; a search_documents with source_filter = p that follows it
\* and returns, returns no results.
C11_DeleteBySourceExact ==
    [][/\ (call'.op = "delete_document" /\ outcome' = Ok(TRUE)) =>
             /\ DOMAIN index' =
                    {id \in DOMAIN index :
                        SourceOf(index[id]) /= Some(PathStr(call'.path))}
             /\ \A id \in DOMAIN index' : index'[id] = index[id]
       /\ (/\ call.op = "delete_document" /\ outcome = Ok(TRUE)
           /\ call'.op = "search_documents"
           /\ call'.source_filter = Some(PathStr(call.path))
           /\ ~outcome'.raised) =>
               outcome'.value = <<>>
      ]_vars

C11_Witness ==
    /\ call.op = "delete_document"
    /\ call.path.name = "a"
    /\ outcome = Ok(TRUE)
    /\ EarlierVector.id \notin DOMAIN index
    /\ {ForeignVector.id, "docs/b.txt_0_92eb5ffe"} \subseteq DOMAIN index

\* C12: a search_documents(query, top_k=k) that returns, returns at most k
\* results in descending order of score: it sent the store one query with
\* top_k = k, and its results are the store's matches, one result per match
\* in the store's order, each with the match's id, score and metadata.
C12_TopKOrdered ==
    SearchReturned =>
        /\ Len(outcome.value) <= call.top_k
        /\ \A i \in 1..(Len(outcome.value) - 1) :
              outcome.value[i].score >= outcome.value[i + 1].score
        /\ Len(queryCalls) = 1
        /\ queryCalls[1].top_k = call.top_k
        /\ Len(outcome.value) = Len(Matches)
        /\ \A i \in 1..Len(Matches) :
              /\ outcome.value[i].id = Matches[i].id
              /\ outcome.value[i].score = Matches[i].score
              /\ outcome.value[i].metadata = Matches[i].metadata

C12_Witness ==
    /\ SearchReturned
    /\ call.top_k = 2
    /\ call.source_filter = None
    /\ Cardinality(DOMAIN index) = 4
    /\ Len(outcome.value) = 2
    /\ outcome.value[1].score > outcome.value[2].score

\* C13: a chat turn whose search returned no results returns the fixed
\* response with empty sources and empty context_used and sends nothing to
\* the completion service; and a chat turn sends a request to the
\* completion service only after its search returned at least one result,
\* and never with an empty context.
C13_NoResultsShortCircuit ==
    /\ (ChatReturned /\ Matches = <<>>) =>
          /\ outcome.value.response = NoDocumentsResponse
          /\ outcome.value.sources = <<>>
          /\ outcome.value.context_used = <<>>
          /\ completionCalls = <<>>
    /\ (call.op = "chat" /\ completionCalls /= <<>>) =>
          /\ Len(queryCalls) = 1
          /\ ~queryCalls[1].response.raised
          /\ Matches /= <<>>
          /\ completionCalls[1].context /= <<>>
          /\ completionCalls[1].context /= NoRelevantDocuments

C13_Witness ==
    /\ ChatReturned
    /\ index /= EmptyIndex
    /\ Matches = <<>>
    /\ outcome.value.sources = <<>>
    /\ completionCalls = <<>>

\* the first n characters of s are p
StartsWith(s, p) == Len(s) >= Len(p) /\ SubSeq(s, 1, Len(p)) = p

\* the last characters of s are p
EndsWith(s, p) == Len(s) >= Len(p) /\ SubSeq(s, Len(s) - Len(p) + 1, Len(s)) = p

\* C14: in a chat turn whose search returned at least one result and whose
\* completion request failed, chat returns: the response is the apology,
\* and the sources and context_used are those of the same turn with a
\* completion that succeeds, one source per match and the context that was
\* sent to the completion service.
C14_GenerationFailureDegrades ==
    (/\ call.op = "chat"
     /\ completionCalls /= <<>>
     /\ completionCalls[1].response.raised) =>
        /\ ~outcome.raised
        /\ StartsWith(outcome.value.response, Apology)
        /\ Len(outcome.value.sources) = Len(Matches)
        /\ outcome.value.context_used = completionCalls[1].context
        /\ LET served == Chat(call.query, TRUE, queryCalls[1].response,
                              Ok(<<"o", "k">>)).result.value
           IN  /\ outcome.value.sources = served.sources
               /\ outcome.value.context_used = served.context_used
               /\ outcome.value.response /= served.response

C14_Witness ==
    /\ ChatReturned
    /\ Len(Matches) = 2
    /\ completionCalls[1].response.raised
    /\ EndsWith(outcome.value.response, Characters["timeout"])
    /\ Len(outcome.value.sources) = 2

\* C15: search_documents and chat, asked for at least one result, return a
\* result whenever they are called: a failure of the query-embedding call
\* or of the index query does not propagate to the caller.
C15_SearchErrorsSurfaced ==
    (\/ call.op = "search_documents" /\ call.top_k >= 1
     \/ call.op = "chat" /\ max_context_chunks >= 1) =>
        ~outcome.raised

\* where sep next occurs in s at or after position from, 0 when nowhere
NextOccurrence(s, sep, from) ==
    LET at == {k \in from..(Len(s) - Len(sep) + 1) :
                  SubSeq(s, k, k + Len(sep) - 1) = sep}
    IN  IF at = {} THEN 0 ELSE CHOOSE k \in at : \A j \in at : k <= j

\* the pieces of s from position from on, between the occurrences of sep
RECURSIVE SplitOn(_, _, _)
SplitOn(s, sep, from) ==
    LET k == NextOccurrence(s, sep, from)
    IN  IF k = 0 THEN <<SubSeq(s, from, Len(s))>>
        ELSE <<SubSeq(s, from, k - 1)>> \o SplitOn(s, sep, k + Len(sep))

\* the document sections of a context
Sections(context) == SplitOn(context, ContextSeparator, 1)

\* C16: a chat turn whose search returned n >= 1 results returns n sources
\* and a context of n sections, in the order of the results: source i has
\* the source, score and chunk_id of result i, and section i is headed
\* 'Document i', names the source of result i and ends with its content.
C16_SourcesAndContextInOrder ==
    (ChatReturned /\ Len(Matches) >= 1) =>
        LET n == Len(Matches)
            sources == outcome.value.sources
            sections == Sections(outcome.value.context_used)
        IN  /\ Len(sources) = n
            /\ Len(sections) = n
            /\ \A i \in 1..n :
                  LET metadata == Matches[i].metadata
                      content == IF "content" \in DOMAIN metadata
                                 THEN metadata.content ELSE <<>>
                  IN  /\ sources[i].score = Matches[i].score
                      /\ SourceOf(metadata) /= None =>
                             sources[i].source = metadata.source
                      /\ "chunk_id" \in DOMAIN metadata =>
                             sources[i].chunk_id = metadata.chunk_id
                      /\ StartsWith(sections[i],
                             <<"D", "o", "c", "u", "m", "e", "n", "t", " ">> \o Decimal(i) \o <<" ", "(">>)
                      /\ EndsWith(sections[i],
                             <<")", ":", "\n">> \o content)
                      /\ SourceOf(metadata) /= None =>
                             EndsWith(sections[i],
                                 Characters[metadata.source]
                                     \o <<")", ":", "\n">> \o content)

C16_Witness ==
    /\ ChatReturned
    /\ Len(Matches) = 2
    /\ Matches[1].id = "docs/b.txt_0_92eb5ffe"
    /\ Matches[2].id = "docs/a.txt_0_0cc9cd4d"
    /\ outcome.value.sources[1].source = "docs/b.txt"
    /\ outcome.value.sources[2].source = "docs/a.txt"
    /\ Len(Sections(outcome.value.context_used)) = 2

====
